---- MODULE Spec2Model ----
(***************************************************************************)
(* gif-frame-normalizer (src/src/main.rs): the delay normalisation and     *)
(* frame expansion of `process`, the transparency rewrite                  *)
(* (`swap_transparent`, `swap_transparent_palette`, `swap`) and `gcd`.     *)
(*                                                                         *)
(* An Option<T> is a sequence of length 0 (None) or 1 (Some(x)).  A        *)
(* palette is the flat byte sequence r,g,b,r,g,b,... of the gif crate; the *)
(* code's 0-based position i is position i+1 here.                         *)
(***************************************************************************)
EXTENDS Integers, Sequences, FiniteSets, TLC

\* ------------------------------------------------------------------ bounds
MaxFrames == 3        \* longest stream of the timing family
MaxPixFrames == 2     \* longest stream of the pixel family
MaxGcdArg == 12       \* gcd harness: operands 0..MaxGcdArg (and U16Max)

\* --------------------------------------------------------- program constants
MIN_DELAY == 2
ZERO_DELAY == 10
U16 == 65536          \* 2^16: frame.delay, delay and n are u16
U16Max == 65535

None == << >>
Some(x) == << x >>
IsSome(o) == Len(o) = 1
unwrap_or(o, d) == IF Len(o) = 1 THEN o[1] ELSE d

Max(a, b) == IF a >= b THEN a ELSE b     \* cmp::max

\* ---------------------------------------------------------------- gcd
\* Variant: a = b is assigned before the remainder is taken.
GcdBodySkewed(a, b) ==
    LET a1 == b
        r  == a1 % b
    IN  IF a1 < r THEN [a |-> r, b |-> a1] ELSE [a |-> a1, b |-> r]

\* One pass through the loop body of gcd, entered with b # 0.
GcdBody(a, b) ==
    LET r  == a % b
        a1 == b
        b1 == r
    IN  IF a1 < b1 THEN [a |-> b1, b |-> a1] ELSE [a |-> a1, b |-> b1]

\* Variant: returns after a single pass of the loop.
gcd_one_pass(a, b) == IF b = 0 THEN a ELSE GcdBody(a, b).a

RECURSIVE gcd(_, _)
gcd(a, b) == IF b = 0 THEN a ELSE LET s == GcdBody(a, b) IN gcd(s.a, s.b)

\* ------------------------------------------------- transparency rewrite
\* slice::swap(i, j), 0-based
SliceSwap(s, i, j) ==
    [x \in 1..Len(s) |->
        IF x = i + 1 THEN s[j + 1] ELSE IF x = j + 1 THEN s[i + 1] ELSE s[x]]

swap_transparent_palette(bg, palette) ==
    LET p == bg * 3
    IN  IF Len(palette) > p + 2
        THEN SliceSwap(SliceSwap(SliceSwap(palette, 0, p), 1, p + 1), 2, p + 2)
        ELSE palette

\* Variant: the second arm (val == v2) is missing.
swap_one_way(val, v1, v2) == IF val = v1 THEN v2 ELSE val

swap(val, v1, v2) == IF val = v1 THEN v2 ELSE IF val = v2 THEN v1 ELSE val

swap_transparent(frame) ==
    LET bg == unwrap_or(frame.transparent, 0)
    IN  IF bg = 0 THEN frame
        ELSE [frame EXCEPT
                !.palette = IF IsSome(@) THEN Some(swap_transparent_palette(bg, @[1]))
                            ELSE @,
                !.buffer = [x \in 1..Len(@) |-> swap(@[x], bg, 0)],
                !.transparent = IF IsSome(@) THEN Some(0) ELSE @]

\* ------------------------------------------------------ delay normaliser
\* Variant: any_different is set only when the gcd changes the delay.
ScanStepFlagOnChange(st, fd) ==
    IF st.delay # fd
    THEN LET g == gcd(st.delay, Max(fd, MIN_DELAY))
         IN  [delay |-> g, any_different |-> (g # st.delay)]
    ELSE st

\* Body of the scan loop for one further frame with delay fd.
ScanStep(st, fd) ==
    IF st.delay # fd
    THEN [delay |-> gcd(st.delay, Max(fd, MIN_DELAY)), any_different |-> TRUE]
    ELSE st

Clamp(d) == IF d < MIN_DELAY THEN MIN_DELAY ELSE d

\* The whole pre-scan over the delays ds of a non-empty stream.
RECURSIVE ScanFrom(_, _, _)
ScanFrom(st, ds, i) ==
    IF i > Len(ds) THEN st ELSE ScanFrom(ScanStep(st, ds[i]), ds, i + 1)

RunScan(ds) == ScanFrom([delay |-> ds[1], any_different |-> FALSE], ds, 2)

\* ------------------------------------------------------- frame expander
\* The u16 sum the tick count divides: base + delay - 1, before any wrap.
TickBase(fd) == IF fd < 2 THEN ZERO_DELAY ELSE fd
TickSum(fd, u) == TickBase(fd) + u - 1
TickOverflows(fd, u) == TickSum(fd, u) >= U16
\* n with the sum wrapped to 16 bits (a build without overflow checks).
TickCount(fd, u) == (TickSum(fd, u) % U16) \div u

Item(r, f) == [ref |-> r, f |-> f]

\* iter::repeat(x).take(m)
RepeatTake(x, m) == [i \in 1..m |-> x]
\* iter::once(x).chain(iter::repeat(e)).take(m)
OnceChainRepeatTake(x, e, m) == [i \in 1..m |-> IF i = 1 THEN x ELSE e]

\* Variant: restore-background handled like leave-in-place.
ExpandFillBackground(frame, empty_frame, n) ==
    IF n < 3 THEN RepeatTake(Item("frame", frame), n)
    ELSE IF frame.dispose \in {"Any", "Keep", "Background"}
         THEN OnceChainRepeatTake(Item("frame", frame),
                                  Item("empty_frame", empty_frame), n)
         ELSE RepeatTake(Item("frame", frame), n)

\* Variant: the n < 3 case is missing.
ExpandFillAlways(frame, empty_frame, n) ==
    IF frame.dispose \in {"Any", "Keep"}
    THEN OnceChainRepeatTake(Item("frame", frame),
                             Item("empty_frame", empty_frame), n)
    ELSE IF frame.dispose = "Background" /\ n >= 2
    THEN LET first_frame == [frame EXCEPT !.dispose = "Keep"]
         IN  OnceChainRepeatTake(Item("first_frame", first_frame),
                                 Item("empty_frame", empty_frame), n - 1)
             \o << Item("frame", frame) >>
    ELSE RepeatTake(Item("frame", frame), n)

\* The sequence the trait object `frames` yields for a frame already stamped
\* with the uniform delay.
Expand(frame, empty_frame, n) ==
    IF n < 3 THEN RepeatTake(Item("frame", frame), n)
    ELSE IF frame.dispose \in {"Any", "Keep"}
         THEN OnceChainRepeatTake(Item("frame", frame),
                                  Item("empty_frame", empty_frame), n)
    ELSE IF frame.dispose = "Background"
         THEN LET first_frame == [frame EXCEPT !.dispose = "Keep"]
              IN  OnceChainRepeatTake(Item("first_frame", first_frame),
                                      Item("empty_frame", empty_frame), n - 1)
                  \o << Item("frame", frame) >>
    ELSE RepeatTake(Item("frame", frame), n)

\* Variant: frame.delay is not restamped.
StampNothing(frame, u) == frame

Stamp(frame, u) == [frame EXCEPT !.delay = u]

\* gif::Frame { delay, width: 1, height: 1, transparent: Some(0),
\*              buffer: [0], .. Default::default() }
EmptyFrame(u) ==
    [delay |-> u, dispose |-> "Keep", transparent |-> Some(0), palette |-> None,
     buffer |-> << 0 >>, width |-> 1, height |-> 1]

\* ----------------------------------------------------------------- state
VARIABLES
    pc,             \* position in process / in the gcd harness
    input,          \* the frames the decoder will yield, in stream order
    gpal,           \* decoder.global_palette(): Option of a flat palette
    gbg,            \* decoder.bg_color(): Option of an index
    rd,             \* frames the decoder has yielded so far
    eof,            \* read_next_frame has returned None
    frames,         \* Vec of rewritten frames
    delay,          \* running delay, then the uniform delay
    any_different,
    enc_open,       \* gif::Encoder::new has succeeded
    enc_palette,    \* global palette handed to the encoder
    empty_frame,
    fi,             \* frames taken by the outer for loop
    n,              \* tick count of frame fi
    k,              \* items of the current run already written
    run,            \* what `frames` (the iterator) yields for frame fi
    out,            \* frames handed to encoder.write_frame, in order
    result,         \* "running", "unchanged", "changed", an error, "panic"
    ga, gb,         \* gcd harness: the loop's a and b
    ga0, gb0,       \* gcd harness: the arguments
    giter           \* gcd harness: loop iterations completed

vars == << pc, input, gpal, gbg, rd, eof, frames, delay, any_different,
           enc_open, enc_palette, empty_frame, fi, n, k, run, out, result,
           ga, gb, ga0, gb0, giter >>

gcdVars == << ga, gb, ga0, gb0, giter >>
streamVars == << input, gpal, gbg >>
emitVars == << empty_frame, fi, n, k, run, out >>

\* ---------------------------------------------------------------- inputs
Disposals == {"Any", "Keep", "Background", "Previous"}
\* 0: below MIN_DELAY; 3 and 6: gcd 3; 3 against max(0, 2): gcd 1; U16Max: the
\* top of the u16 range.  The pixel family adds the delays 2, 4, ...
DelayValues == {0, 3, 6, U16Max}

SeqsUpTo(S, m) == UNION {[1..j -> S] : j \in 0..m}

\* Timing family: every delay and disposal, one fixed 2x1 picture.
TimingFrames ==
    [delay : DelayValues, dispose : Disposals, transparent : {None},
     palette : {None}, buffer : {<< 0, 1 >>}, width : {2}, height : {1}]
TimingStreams == SeqsUpTo(TimingFrames, MaxFrames)

\* Pixel family: every transparency / palette combination of a 3x1 picture
\* that uses the indices 0, 1 and 2; the frame at position i has delay 2 * i,
\* so the delays of a stream of two or more frames differ.
Pal3 == << 10, 11, 12, 20, 21, 22, 30, 31, 32 >>    \* three colours
Pal1 == << 40, 41, 42 >>                            \* one colour
GPal == << 50, 51, 52, 60, 61, 62, 70, 71, 72 >>
PixFrames ==
    [delay : {2 * i : i \in 1..MaxPixFrames}, dispose : {"Keep"},
     transparent : {None, Some(0), Some(1)},
     palette : {None, Some(Pal3), Some(Pal1)},
     buffer : {<< 0, 1, 2 >>}, width : {3}, height : {1}]
PixStreams ==
    UNION {{s \in [1..j -> PixFrames] : \A i \in 1..j : s[i].delay = 2 * i} :
              j \in 1..MaxPixFrames}
PixBackgrounds == {None, Some(1), Some(3)}
PixGlobalPalettes == {None, Some(GPal)}

Idle ==
    /\ rd = 0 /\ eof = FALSE /\ frames = << >> /\ delay = 0
    /\ any_different = FALSE /\ enc_open = FALSE /\ enc_palette = << >>
    /\ empty_frame = EmptyFrame(0) /\ fi = 0 /\ n = 0 /\ k = 0
    /\ run = << >> /\ out = << >> /\ result = "running"

Init ==
    /\ pc = "start"
    /\ \/ input \in TimingStreams /\ gpal = None /\ gbg = None
       \/ input \in PixStreams /\ gpal \in PixGlobalPalettes
                               /\ gbg \in PixBackgrounds
    /\ Idle
    /\ ga = 0 /\ gb = 0 /\ ga0 = 0 /\ gb0 = 0 /\ giter = 0

\* ------------------------------------------------------------- process
Return(r) == pc' = "done" /\ result' = r

\* gif::Decoder::new(File::open(from)).read_info()
OpenDecoder ==
    /\ pc = "start"
    /\ pc' = "first"
    /\ UNCHANGED << streamVars, rd, eof, frames, delay, any_different, enc_open,
                    enc_palette, emitVars, result, gcdVars >>

OpenDecoderError ==
    /\ pc = "start"
    /\ \E e \in {"io_error", "decode_error"} : Return(e)
    /\ UNCHANGED << streamVars, rd, eof, frames, delay, any_different, enc_open,
                    enc_palette, emitVars, gcdVars >>

\* if let Some(first_frame) = try!(decoder.read_next_frame()) { .. } else { .. }
ReadFirst ==
    /\ pc = "first"
    /\ IF Len(input) = 0
       THEN /\ Return("unchanged")
            /\ eof' = TRUE
            /\ UNCHANGED << rd, frames, delay >>
       ELSE /\ delay' = input[1].delay
            /\ frames' = << swap_transparent(input[1]) >>
            /\ rd' = 1
            /\ pc' = "scan"
            /\ UNCHANGED << eof, result >>
    /\ UNCHANGED << streamVars, any_different, enc_open, enc_palette, emitVars,
                    gcdVars >>

\* while let Some(frame) = try!(decoder.read_next_frame()) { .. }
ReadNext ==
    /\ pc = "scan"
    /\ rd < Len(input)
    /\ LET frame == input[rd + 1]
           st == ScanStep([delay |-> delay, any_different |-> any_different],
                          frame.delay)
       IN  /\ delay' = st.delay
           /\ any_different' = st.any_different
           /\ frames' = Append(frames, swap_transparent(frame))
    /\ rd' = rd + 1
    /\ UNCHANGED << pc, streamVars, eof, enc_open, enc_palette, emitVars, result,
                    gcdVars >>

\* try!(decoder.read_next_frame()) fails, on any read
ReadError ==
    /\ pc \in {"first", "scan"}
    /\ Return("decode_error")
    /\ UNCHANGED << streamVars, rd, eof, frames, delay, any_different, enc_open,
                    enc_palette, emitVars, gcdVars >>

\* read_next_frame returns None; if !any_different { return Ok(false); }
ScanEnd ==
    /\ pc = "scan"
    /\ rd = Len(input)
    /\ eof' = TRUE
    /\ IF ~any_different
       THEN Return("unchanged")
       ELSE pc' = "open" /\ UNCHANGED result
    /\ UNCHANGED << streamVars, rd, frames, delay, any_different, enc_open,
                    enc_palette, emitVars, gcdVars >>

\* The palette handed to gif::Encoder::new.
EncoderPalette ==
    LET global_bg == unwrap_or(gbg, 0)
        global_palette == unwrap_or(gpal, << >>)
    IN  IF global_bg = 0 THEN global_palette
        ELSE swap_transparent_palette(global_bg, global_palette)

\* Encoder::new, set(Repeat::Infinite), the clamp, empty_frame
OpenEncoder ==
    /\ pc = "open"
    /\ enc_palette' = EncoderPalette
    /\ enc_open' = TRUE
    /\ delay' = Clamp(delay)
    /\ empty_frame' = EmptyFrame(Clamp(delay))
    /\ pc' = "emit"
    /\ fi' = 0 /\ n' = 0 /\ k' = 0 /\ run' = << >>
    /\ UNCHANGED << streamVars, rd, eof, frames, any_different, out, result,
                    gcdVars >>

\* Encoder::new fails (nothing opened) or SetParameter::set fails after it
OpenEncoderError ==
    /\ pc = "open"
    /\ \E opened \in BOOLEAN :
          /\ enc_open' = opened
          /\ enc_palette' = IF opened THEN EncoderPalette ELSE enc_palette
    /\ Return("io_error")
    /\ UNCHANGED << streamVars, rd, eof, frames, delay, any_different, emitVars,
                    gcdVars >>

\* Top of the outer for loop: tick count, restamp, choice of the iterator.
\* An overflowing sum wraps here (build without overflow checks).
BeginFrame ==
    /\ pc = "emit"
    /\ k = n
    /\ fi < Len(frames)
    /\ LET frame == Stamp(frames[fi + 1], delay)
           m == TickCount(frames[fi + 1].delay, delay)
       IN  /\ n' = m
           /\ run' = Expand(frame, empty_frame, m)
    /\ fi' = fi + 1
    /\ k' = 0
    /\ UNCHANGED << pc, streamVars, rd, eof, frames, delay, any_different,
                    enc_open, enc_palette, empty_frame, out, result, gcdVars >>

\* The same sum overflowing in a build with overflow checks: the thread panics.
BeginFramePanic ==
    /\ pc = "emit"
    /\ k = n
    /\ fi < Len(frames)
    /\ TickOverflows(frames[fi + 1].delay, delay)
    /\ Return("panic")
    /\ UNCHANGED << streamVars, rd, eof, frames, delay, any_different, enc_open,
                    enc_palette, emitVars, gcdVars >>

\* Variant: the frame is put ahead of those already written.
WriteAtFront(o, x) == << x >> \o o

WriteTo(o, x) == Append(o, x)

\* try!(encoder.write_frame(frame)) succeeds
WriteFrame ==
    /\ pc = "emit"
    /\ k < n
    /\ out' = WriteTo(out, run[k + 1])
    /\ k' = k + 1
    /\ UNCHANGED << pc, streamVars, rd, eof, frames, delay, any_different,
                    enc_open, enc_palette, empty_frame, fi, n, run, result,
                    gcdVars >>

\* try!(encoder.write_frame(frame)) fails
WriteFrameError ==
    /\ pc = "emit"
    /\ k < n
    /\ Return("io_error")
    /\ UNCHANGED << streamVars, rd, eof, frames, delay, any_different, enc_open,
                    enc_palette, emitVars, gcdVars >>

\* Both loops exhausted: Ok(true)
Finish ==
    /\ pc = "emit"
    /\ k = n
    /\ fi = Len(frames)
    /\ Return("changed")
    /\ UNCHANGED << streamVars, rd, eof, frames, delay, any_different, enc_open,
                    enc_palette, emitVars, gcdVars >>

Next ==
    \/ OpenDecoder \/ OpenDecoderError
    \/ ReadFirst \/ ReadNext \/ ReadError \/ ScanEnd
    \/ OpenEncoder \/ OpenEncoderError
    \/ BeginFrame \/ BeginFramePanic
    \/ WriteFrame \/ WriteFrameError
    \/ Finish

Spec == Init /\ [][Next]_vars

\* ------------------------------------------------------------ gcd harness
\* gcd run on its own, one loop iteration per step, on arbitrary operands.
GcdArgs == 0..MaxGcdArg \cup {U16Max}

InitGcd ==
    /\ pc = "gcd"
    /\ ga0 \in GcdArgs /\ gb0 \in GcdArgs
    /\ ga = ga0 /\ gb = gb0 /\ giter = 0
    /\ input = << >> /\ gpal = None /\ gbg = None
    /\ Idle

\* if b == 0 { return a; } falls through; the rest of the loop body
GcdLoop ==
    /\ pc = "gcd"
    /\ gb # 0
    /\ LET s == GcdBody(ga, gb) IN ga' = s.a /\ gb' = s.b
    /\ giter' = giter + 1
    /\ UNCHANGED << pc, streamVars, rd, eof, frames, delay, any_different,
                    enc_open, enc_palette, emitVars, result, ga0, gb0 >>

\* if b == 0 { return a; }
GcdReturn ==
    /\ pc = "gcd"
    /\ gb = 0
    /\ pc' = "gcd_done"
    /\ UNCHANGED << streamVars, rd, eof, frames, delay, any_different, enc_open,
                    enc_palette, emitVars, result, gcdVars >>

NextGcd == GcdLoop \/ GcdReturn

\* The loop has no suspension point: it keeps stepping until it returns.
SpecGcd == InitGcd /\ [][NextGcd]_vars /\ WF_vars(NextGcd)

\* ------------------------------------------------------ claim vocabulary
Delays(s) == [i \in 1..Len(s) |-> s[i].delay]
AllSameDelay(s) == \A i, j \in 1..Len(s) : s[i].delay = s[j].delay
CeilDiv(d, u) == (d + u - 1) \div u          \* ceil(d/u), unbounded integers
LastN(s, m) == SubSeq(s, Len(s) - m + 1, Len(s))
\* The value the scan leaves in `delay`, before the clamp.
ScanValue == RunScan(Delays(input)).delay
\* The original frame the outer loop is on, restamped.
Current == [frames[fi] EXCEPT !.delay = delay]
RunComplete == fi >= 1 /\ k = n

\* C1: once normalisation emits, every frame handed to the encoder (copy,
\* restore-background lead clone, filler) carries the one delay u, u is the
\* scan value raised to the floor, and u >= 2.
C1_UniformDelay ==
    out # << >> =>
        /\ delay >= 2
        /\ delay = Max(ScanValue, 2)
        /\ empty_frame.delay = delay
        /\ \A i \in 1..Len(out) : out[i].f.delay = delay

C1_Witness ==
    /\ result = "changed"
    /\ \A r \in {"frame", "first_frame", "empty_frame"} :
          \E i \in 1..Len(out) : out[i].ref = r
    /\ \E i \in 1..Len(input) : input[i].delay # delay

\* C2 as stated: u divides max(d, 2) for every original frame, the first
\* included, and a completed run lasts exactly that adjusted duration.
C2_DividesEveryAdjustedDelay ==
    pc = "emit" =>
        /\ \A i \in 1..Len(input) : Max(input[i].delay, 2) % delay = 0
        /\ RunComplete => n * delay = Max(input[fi].delay, 2)

\* C2 amended: when the scan value is >= 2 (the clamp changes nothing), u is
\* that value and divides the delay d of every original frame with d >= 2,
\* so ceil(d/u) * u = d for those frames.
C2_DividesWhenUnclamped ==
    (pc = "emit" /\ ScanValue >= 2) =>
        /\ delay = ScanValue
        /\ \A i \in 1..Len(input) :
              input[i].delay >= 2 =>
                  /\ input[i].delay % delay = 0
                  /\ CeilDiv(input[i].delay, delay) * delay = input[i].delay

C2_Witness ==
    /\ pc = "emit"
    /\ ScanValue = 3
    /\ Len(input) = 3
    /\ input[1].delay = 6 /\ input[2].delay = 6 /\ input[3].delay = 3

\* C3: for every original frame with d >= 2, over the whole u16 range, the
\* run has n = ceil(d/u) frames and n * u >= d (and process gets that far).
C3_TickCountIsCeil ==
    /\ result # "panic"
    /\ (fi >= 1 /\ input[fi].delay >= 2) =>
          /\ n = CeilDiv(input[fi].delay, delay)
          /\ n * delay >= input[fi].delay

\* C4: the encoder is opened and frames are emitted iff the decoded frames
\* do not all share one delay; a uniform stream (also empty, single-frame,
\* or uniform below 2) ends "unchanged" with nothing opened or written; and
\* the pre-scan of a finished output finds no differing delay.
C4_UnchangedIffUniform ==
    /\ result = "unchanged" => (AllSameDelay(input) /\ ~enc_open /\ out = << >>)
    /\ (eof /\ AllSameDelay(input)) => result = "unchanged"
    /\ (eof /\ ~AllSameDelay(input)) =>
          (pc \in {"open", "emit"} \/ result \in {"changed", "io_error", "panic"})
    /\ (enc_open \/ out # << >> \/ pc \in {"open", "emit"}) => ~AllSameDelay(input)
    /\ (result = "changed" /\ out # << >>) =>
          ~RunScan([i \in 1..Len(out) |-> out[i].f.delay]).any_different

C4_Witness ==
    /\ result = "unchanged"
    /\ Len(input) >= 2
    /\ input[1].delay < 2

\* What a decoder shows for pixel x of a frame.
Transparent == << -2, -2, -2 >>
NoColour == << -1, -1, -1 >>              \* index beyond the palette
Colour(pal, c) ==
    IF Len(pal) > 3 * c + 2
    THEN << pal[3 * c + 1], pal[3 * c + 2], pal[3 * c + 3] >>
    ELSE NoColour
Resolve(frame, x, global) ==
    LET c == frame.buffer[x]
    IN  IF frame.transparent = Some(c) THEN Transparent
        ELSE Colour(IF IsSome(frame.palette) THEN frame.palette[1] ELSE global, c)
\* C5: every pixel of every frame resolves to the same colour before and
\* after the rewrite (local palette if present, else the global one;
\* transparent when the index is the frame's marker).
C5_VisualResultKept ==
    pc = "emit" =>
        \A i \in 1..Len(input) : \A x \in 1..Len(input[i].buffer) :
            Resolve(frames[i], x, enc_palette)
                = Resolve(input[i], x, unwrap_or(gpal, << >>))

\* C6: a restore-background frame with n >= 3 is written as one clone with
\* disposal leave-in-place, then n-2 fillers, then the frame itself; only
\* the last frame of the run has restore-background disposal.
C6_BackgroundRun ==
    (RunComplete /\ n >= 3 /\ frames[fi].dispose = "Background") =>
        LET seg == LastN(out, n)
        IN  /\ Len(out) >= n
            /\ seg[1] = Item("first_frame", [Current EXCEPT !.dispose = "Keep"])
            /\ \A j \in 2..(n - 1) : seg[j] = Item("empty_frame", empty_frame)
            /\ seg[n] = Item("frame", Current)
            /\ {j \in 1..n : seg[j].f.dispose = "Background"} = {n}

C6_Witness ==
    /\ RunComplete
    /\ n = 5
    /\ frames[fi].dispose = "Background"
    /\ Len(out) > n

\* Frames written for the original frames before frame i.
RECURSIVE TicksBefore(_)
TicksBefore(i) ==
    IF i <= 1 THEN 0
    ELSE TicksBefore(i - 1) + TickCount(input[i - 1].delay, delay)
\* C7: a run has exactly n frames; with n < 3 or restore-previous they are
\* all the restamped original; with n >= 3 and leave-in-place / unspecified
\* it is the original once, then n-1 fillers (1x1, marker 0, leave-in-place).
C7_RunShape ==
    fi >= 1 =>
        /\ Len(out) = TicksBefore(fi) + k
        /\ RunComplete =>
              LET seg == LastN(out, n)
              IN  /\ (n < 3 \/ frames[fi].dispose = "Previous") =>
                        \A j \in 1..n : seg[j] = Item("frame", Current)
                  /\ (n >= 3 /\ frames[fi].dispose \in {"Any", "Keep"}) =>
                        /\ seg[1] = Item("frame", Current)
                        /\ \A j \in 2..n :
                              /\ seg[j].ref = "empty_frame"
                              /\ seg[j].f.width = 1 /\ seg[j].f.height = 1
                              /\ seg[j].f.transparent = Some(0)
                              /\ seg[j].f.dispose = "Keep"
                              /\ seg[j].f.buffer = << 0 >>

C7_Witness ==
    /\ RunComplete
    /\ n = 4
    /\ frames[fi].dispose = "Previous"
    /\ \E i \in 1..(fi - 1) : /\ input[i].dispose \in {"Any", "Keep"}
                              /\ TickCount(input[i].delay, delay) >= 3

\* The pixel loop of swap_transparent for index t.
SwapPixels(buffer, t) == [x \in 1..Len(buffer) |-> swap(buffer[x], t, 0)]
\* C8: swapping 0 and t twice (pixels and palette) restores buffer and
\* palette; after swap_transparent the marker is absent or 0; a frame whose
\* marker was absent or 0 comes back unchanged.
C8_SwapInvolution ==
    /\ \A i \in 1..Len(input) : \A t \in {1, 2, unwrap_or(input[i].transparent, 0)} :
          /\ SwapPixels(SwapPixels(input[i].buffer, t), t) = input[i].buffer
          /\ IsSome(input[i].palette) =>
                swap_transparent_palette(t,
                    swap_transparent_palette(t, input[i].palette[1]))
                  = input[i].palette[1]
    /\ IsSome(gpal) =>
          swap_transparent_palette(unwrap_or(gbg, 0),
              swap_transparent_palette(unwrap_or(gbg, 0), gpal[1])) = gpal[1]
    /\ \A i \in 1..Len(frames) :
          /\ frames[i].transparent \in {None, Some(0)}
          /\ input[i].transparent \in {None, Some(0)} => frames[i] = input[i]
          /\ input[i].transparent \notin {None, Some(0)} =>
                frames[i].buffer
                    = SwapPixels(input[i].buffer, input[i].transparent[1])

C8_Witness ==
    /\ Len(frames) = 2
    /\ input[1].transparent = Some(1) /\ input[1].palette = Some(Pal3)
    /\ frames[1].buffer = << 1, 0, 2 >>
    /\ frames[1].palette = Some(<< 20, 21, 22, 10, 11, 12, 30, 31, 32 >>)
    /\ input[2].transparent = None /\ frames[2] = input[2]

\* The greatest common divisor by its definition.
CommonDivisors(a, b) == {d \in 1..Max(a, b) : a % d = 0 /\ b % d = 0}
GreatestCommonDivisor(a, b) ==
    IF a = 0 /\ b = 0 THEN 0
    ELSE CHOOSE d \in CommonDivisors(a, b) : \A e \in CommonDivisors(a, b) : e <= d
\* The state part of C9: ordering, result, zero short-circuit.
C9_GcdState ==
    /\ giter >= 1 => ga >= gb
    /\ pc = "gcd_done" =>
          /\ ga = GreatestCommonDivisor(ga0, gb0)
          /\ ga = gcd(ga0, gb0)
          /\ gb0 = 0 => (ga = ga0 /\ giter = 0)
          /\ ga0 = 0 => ga = gb0
\* C9: gcd returns, with the greatest common divisor; a zero operand gives
\* the other operand; after the first iteration the pair is ordered a >= b.
C9_GcdTerminatesWithGcd == []C9_GcdState /\ <>(pc = "gcd_done")

C9_Witness ==
    /\ pc = "gcd_done"
    /\ ga0 = 6 /\ gb0 = 4 /\ ga = 2
    /\ giter = 2

\* The runs of frames 1..i, concatenated in stream order.
RECURSIVE RunsThrough(_)
RunsThrough(i) ==
    IF i = 0 THEN << >>
    ELSE RunsThrough(i - 1)
            \o Expand([frames[i] EXCEPT !.delay = delay], empty_frame,
                      TickCount(frames[i].delay, delay))
\* C10: nothing is opened or written before the decoder reported end of
\* stream; a decode failure leaves the output empty; the output is the runs
\* of the frames in stream order, each complete before the next begins; and
\* nothing is written once process has returned (first write error included).
C10_TwoPassInOrder ==
    /\ (enc_open \/ out # << >> \/ pc \in {"open", "emit"}) =>
          (eof /\ rd = Len(input) /\ Len(frames) = Len(input))
    /\ result = "decode_error" => (out = << >> /\ ~enc_open)
    /\ fi = 0 => out = << >>
    /\ fi >= 1 => out = RunsThrough(fi - 1) \o SubSeq(run, 1, k)
    /\ result = "changed" => out = RunsThrough(Len(frames))
    /\ pc = "done" => ~ENABLED WriteFrame

C10_Witness ==
    /\ result = "io_error"
    /\ fi = 2 /\ k = 1 /\ n >= 2
    /\ Len(out) >= 3

====
